---- MODULE Spec2Model ----
(***************************************************************************)
(* Model of blog_generator/views.py: the transcription pipeline            *)
(* (get_transcriptions and its helpers), the article generator             *)
(* (generate_blog_from_transcription) and the shared Django cache.         *)
(*                                                                         *)
(* Python strings are sequences of one-character strings, so that          *)
(* concatenation, substring tests, splitting and stripping are computed.   *)
(* None is a value distinct from every such string.                        *)
(***************************************************************************)
EXTENDS Integers, Sequences, FiniteSets, TLC

VARIABLES
    DEBUG,      \* settings.DEBUG, fixed for the life of the process
    now,        \* wall-clock time in seconds since process start
    cache,      \* django.core.cache.cache: key -> [value, expires]
    files,      \* temporary audio files present in the working directory
    media,      \* durable .mp3 copies present under MEDIA_ROOT
    call,       \* per invocation of get_transcriptions: its frame
    task,       \* per invocation: its thread-pool tasks
    queue,      \* executor: work items submitted and not yet picked up
    stored,     \* history: key -> the last pair a call stored, and when
    idPc,       \* SpecId: "input" before extract_video_id ran, "returned" after
    idIn,       \* SpecId: the components the URL under test is built from
    idOut,      \* SpecId: what extract_video_id returned
    capPc,      \* SpecCap: "input" before get_youtube_captions ran, "returned" after
    capSvc,     \* SpecCap: how the caption-retrieval service behaves
    capOut,     \* SpecCap: what get_youtube_captions returned or raised
    capLog,     \* SpecCap: the requests made to the caption-retrieval service
    genCount,   \* SpecGen: calls of generate_blog_from_transcription so far
    genLast,    \* SpecGen: the last call: inputs, response, outcome
    genSeen     \* SpecGen history: concatenated text -> calls, last generation

pipeVars == <<DEBUG, now, cache, files, media, call, task, queue, stored>>
idVars == <<idPc, idIn, idOut>>
capVars == <<capPc, capSvc, capOut, capLog>>
genVars == <<genCount, genLast, genSeen>>
vars == <<pipeVars, idVars, capVars, genVars>>

----------------------------------------------------------------------------
(* Python values and string primitives *)

None == <<"<None>">>

Falsy(x) == x = None \/ x = <<>>

S_youtube == <<"y", "o", "u", "t", "u", "b", "e">>
S_youtu_be == <<"y", "o", "u", "t", "u", ".", "b", "e">>
S_www_youtube_com ==
    <<"w", "w", "w", ".", "y", "o", "u", "t", "u", "b", "e", ".", "c", "o", "m">>
S_example_com == <<"e", "x", "a", "m", "p", "l", "e", ".", "c", "o", "m">>
S_https == <<"h", "t", "t", "p", "s", ":", "/", "/">>
S_watch == <<"/", "w", "a", "t", "c", "h">>
S_abc123 == <<"a", "b", "c", "1", "2", "3">>
S_v == <<"v">>
S_t == <<"t">>
S_x == <<"x">>

\* `sub in s`
Contains(s, sub) ==
    \E i \in 1..(Len(s) - Len(sub) + 1) : SubSeq(s, i, i + Len(sub) - 1) = sub

\* s.find(c) for a single character, 1-based; 0 when absent
Find(s, c) ==
    IF \E i \in 1..Len(s) : s[i] = c
    THEN CHOOSE i \in 1..Len(s) : s[i] = c /\ \A j \in 1..(i - 1) : s[j] # c
    ELSE 0

\* s.split(c, 1)
Split1(s, c) ==
    LET i == Find(s, c)
    IN  IF i = 0 THEN <<s>> ELSE <<SubSeq(s, 1, i - 1), SubSeq(s, i + 1, Len(s))>>

\* s.split(c)
RECURSIVE Split(_, _)
Split(s, c) ==
    LET i == Find(s, c)
    IN  IF i = 0 THEN <<s>>
        ELSE <<SubSeq(s, 1, i - 1)>> \o Split(SubSeq(s, i + 1, Len(s)), c)

RECURSIVE LStrip(_, _)
LStrip(s, chars) ==
    IF s # <<>> /\ Head(s) \in chars THEN LStrip(Tail(s), chars) ELSE s

RECURSIVE RStrip(_, _)
RStrip(s, chars) ==
    IF s # <<>> /\ s[Len(s)] \in chars
    THEN RStrip(SubSeq(s, 1, Len(s) - 1), chars)
    ELSE s

\* s.strip(chars)
Strip(s, chars) == RStrip(LStrip(s, chars), chars)

Whitespace == {" "}

\* sep.join(parts)
RECURSIVE Join(_, _)
Join(parts, sep) ==
    IF parts = <<>> THEN <<>>
    ELSE IF Len(parts) = 1 THEN parts[1]
    ELSE parts[1] \o sep \o Join(Tail(parts), sep)

----------------------------------------------------------------------------
(* urllib.parse as used by extract_video_id.  The alphabet of the URLs     *)
(* under test has no '%', '+', ';', '[' or control characters, so          *)
(* unquoting, parameter splitting and the bracket checks change nothing.   *)

NotSchemeChars == {"/", "?", "=", "&", "#", ":", " "}
Digits == {"0", "1", "2", "3", "4", "5", "6", "7", "8", "9"}

\* the earliest of '/', '?', '#' at or after the netloc, as _splitnetloc does
NetlocEnd(s) ==
    IF \E i \in 1..Len(s) : s[i] \in {"/", "?", "#"}
    THEN (CHOOSE i \in 1..Len(s) :
              /\ s[i] \in {"/", "?", "#"}
              /\ \A j \in 1..(i - 1) : s[j] \notin {"/", "?", "#"}) - 1
    ELSE Len(s)

urlparse(url) ==
    LET i == Find(url, ":")
        hasScheme ==
            /\ i > 1
            /\ url[1] \notin (NotSchemeChars \cup Digits \cup {".", "+", "-"})
            /\ \A j \in 1..(i - 1) : url[j] \notin NotSchemeChars
        scheme == IF hasScheme THEN SubSeq(url, 1, i - 1) ELSE <<>>
        rest1 == IF hasScheme THEN SubSeq(url, i + 1, Len(url)) ELSE url
        hasNetloc == Len(rest1) >= 2 /\ SubSeq(rest1, 1, 2) = <<"/", "/">>
        afterSlashes == SubSeq(rest1, 3, Len(rest1))
        netloc == IF hasNetloc
                  THEN SubSeq(afterSlashes, 1, NetlocEnd(afterSlashes))
                  ELSE <<>>
        rest2 == IF hasNetloc
                 THEN SubSeq(afterSlashes, NetlocEnd(afterSlashes) + 1, Len(afterSlashes))
                 ELSE rest1
        fragSplit == Split1(rest2, "#")
        rest3 == fragSplit[1]
        fragment == IF Len(fragSplit) = 2 THEN fragSplit[2] ELSE <<>>
        querySplit == Split1(rest3, "?")
    IN  [scheme |-> scheme,
         netloc |-> netloc,
         path |-> querySplit[1],
         query |-> IF Len(querySplit) = 2 THEN querySplit[2] ELSE <<>>,
         fragment |-> fragment]

\* parse_qsl with keep_blank_values=True
RECURSIVE parse_fields_keep_blank(_)
parse_fields_keep_blank(fields) ==
    IF fields = <<>> THEN <<>>
    ELSE LET nv == Split1(Head(fields), "=")
         IN  (IF Len(nv) = 2 THEN <<nv>> ELSE <<>>)
             \o parse_fields_keep_blank(Tail(fields))

\* parse_qsl(qs) with keep_blank_values=False, strict_parsing=False:
\* fields without '=' and fields with an empty value are dropped
RECURSIVE parse_fields(_)
parse_fields(fields) ==
    IF fields = <<>> THEN <<>>
    ELSE LET nv == Split1(Head(fields), "=")
         IN  (IF Len(nv) = 2 /\ Len(nv[2]) > 0 THEN <<nv>> ELSE <<>>)
             \o parse_fields(Tail(fields))

parse_qsl(qs) == parse_fields(Split(qs, "&"))

\* parse_qs(qs).get(name, [None])[0]: the first value kept for `name`
QsGetFirst(qs, name) ==
    LET r == parse_qsl(qs)
    IN  IF \E i \in 1..Len(r) : r[i][1] = name
        THEN r[CHOOSE i \in 1..Len(r) :
                   r[i][1] = name /\ \A j \in 1..(i - 1) : r[j][1] # name][2]
        ELSE None

extract_video_id(url) ==
    LET parsed == urlparse(url)
    IN  IF Contains(parsed.netloc, S_youtube)
        THEN QsGetFirst(parsed.query, S_v)
        ELSE IF Contains(parsed.netloc, S_youtu_be)
        THEN Strip(parsed.path, {"/"})
        ELSE None

----------------------------------------------------------------------------
(* URLs built from components, the inputs of extract_video_id *)

MaxPairs == 2

Hosts == {S_www_youtube_com, S_youtu_be, S_example_com}
Paths == {<<>>, <<"/">>, S_watch, <<"/">> \o S_abc123, <<"/">> \o S_abc123 \o <<"/">>}
QueryKeys == {S_v, S_t}
QueryValues == {<<>>, S_abc123, S_x}
QueryPair == [key : QueryKeys, value : QueryValues]
QueryPairs == UNION {[1..n -> QueryPair] : n \in 0..MaxPairs}

RECURSIVE QueryString(_)
QueryString(pairs) ==
    IF pairs = <<>> THEN <<>>
    ELSE LET field == pairs[1].key \o <<"=">> \o pairs[1].value
         IN  IF Len(pairs) = 1 THEN field
             ELSE field \o <<"&">> \o QueryString(Tail(pairs))

BuildUrl(host, path, pairs) ==
    S_https \o host \o path
        \o (IF pairs = <<>> THEN <<>> ELSE <<"?">> \o QueryString(pairs))

----------------------------------------------------------------------------
(* Outcomes of a Python call: a returned value or a raised exception *)

Return(v) == [raised |-> FALSE, exc |-> "", value |-> v]
Raise(e) == [raised |-> TRUE, exc |-> e, value |-> None]

----------------------------------------------------------------------------
(* get_youtube_captions.  The caption-retrieval service is described by    *)
(* how each of its calls answers: get_transcript, list_transcripts,        *)
(* find_generated_transcript and fetch.                                    *)

MaxFrags == 2

FragTexts == {<<>>, <<"c">>, <<" ", "d", " ">>}
Fragments == UNION {[1..n -> FragTexts] : n \in 0..MaxFrags}
CaptionErrors == {"NoTranscriptFound", "TranscriptsDisabled", "Other"}

SvcOk(frags) == [kind |-> "ok", frags |-> frags]
SvcErr(e) == [kind |-> e, frags |-> <<>>]

CaptionServices ==
    [get : {SvcOk(f) : f \in Fragments} \cup {SvcErr(e) : e \in CaptionErrors},
     list : {"ok", "TranscriptsDisabled", "Other"},
     find : {"found", "NoTranscriptFound"},
     fetch : {SvcOk(f) : f \in Fragments} \cup {SvcErr("Other")}]

\* " ".join([t['text'] for t in captions]).strip()
join_captions(frags) == Strip(Join(frags, <<" ">>), Whitespace)

\* lines 218-219: the body of the outer try
captions_exact(svc) ==
    IF svc.get.kind = "ok"
    THEN Return(join_captions(svc.get.frags))
    ELSE Raise(svc.get.kind)

\* lines 224-229: the body of the inner try
captions_generated(svc) ==
    IF svc.list # "ok" THEN Raise(svc.list)
    ELSE IF svc.find # "found" THEN Raise(svc.find)
    ELSE IF svc.fetch.kind = "ok"
    THEN Return(join_captions(svc.fetch.frags))
    ELSE Raise(svc.fetch.kind)

\* the fallback with its handler missing
captions_fallback_unhandled(svc) == captions_generated(svc)

\* lines 220-233: the NoTranscriptFound handler, with its own except Exception
captions_fallback(svc) ==
    LET r == captions_generated(svc)
    IN  IF r.raised THEN Return(<<>>) ELSE r

\* the fallback tried for disabled captions as well
enters_fallback_when_disabled(r) ==
    r.raised /\ r.exc \in {"NoTranscriptFound", "TranscriptsDisabled"}

\* line 220: `except NoTranscriptFound`
enters_fallback(r) == r.raised /\ r.exc = "NoTranscriptFound"

\* the outer handlers with the final `except Exception` missing
captions_handlers_no_catch_all(svc, r) ==
    IF ~r.raised THEN r
    ELSE IF enters_fallback(r) THEN captions_fallback(svc)
    ELSE IF r.exc = "TranscriptsDisabled" THEN Return(<<>>)
    ELSE r

\* lines 220-242: the handlers of the outer try
captions_handlers(svc, r) ==
    IF ~r.raised THEN r
    ELSE IF enters_fallback(r) THEN captions_fallback(svc)
    ELSE IF r.exc = "TranscriptsDisabled" THEN Return(<<>>)
    ELSE Return(<<>>)

get_youtube_captions(svc) == captions_handlers(svc, captions_exact(svc))

\* lines 224-228: the requests of the inner try, up to the first that raises;
\* find_generated_transcript is called in the test and again for the fetch
generated_requests(svc) ==
    <<"list_transcripts">>
    \o (IF svc.list # "ok" THEN <<>>
        ELSE <<"find_generated_transcript">>
             \o (IF svc.find # "found" THEN <<>>
                 ELSE <<"find_generated_transcript", "fetch">>))

\* the requests one call of get_youtube_captions makes, in order
captions_requests(svc) ==
    <<"get_transcript">>
    \o (IF enters_fallback(captions_exact(svc)) THEN generated_requests(svc) ELSE <<>>)

----------------------------------------------------------------------------
(* Values the variables of one specification keep in the others *)

PipeOff ==
    /\ DEBUG = FALSE
    /\ now = 0
    /\ cache = <<>>
    /\ files = {}
    /\ media = {}
    /\ call = <<>>
    /\ task = <<>>
    /\ queue = <<>>
    /\ stored = <<>>

IdOff == idPc = "off" /\ idIn = <<>> /\ idOut = None

CapOff == capPc = "off" /\ capSvc = <<>> /\ capOut = <<>> /\ capLog = <<>>

GenOff == genCount = 0 /\ genLast = <<>> /\ genSeen = <<>>

----------------------------------------------------------------------------
(* SpecId: extract_video_id applied to a URL *)

IdInit ==
    /\ idPc = "input"
    /\ idIn \in [host : Hosts, path : Paths, pairs : QueryPairs]
    /\ idOut = None
    /\ PipeOff /\ CapOff /\ GenOff

ExtractId ==
    /\ idPc = "input"
    /\ idPc' = "returned"
    /\ idOut' = extract_video_id(BuildUrl(idIn.host, idIn.path, idIn.pairs))
    /\ UNCHANGED <<idIn, pipeVars, capVars, genVars>>

IdNext == ExtractId

SpecId == IdInit /\ [][IdNext]_vars

----------------------------------------------------------------------------
(* SpecCap: get_youtube_captions applied to a behaviour of the service *)

CapInit ==
    /\ capPc = "input"
    /\ capSvc \in CaptionServices
    /\ capOut = <<>>
    /\ capLog = <<>>
    /\ PipeOff /\ IdOff /\ GenOff

FetchCaptions ==
    /\ capPc = "input"
    /\ capPc' = "returned"
    /\ capOut' = get_youtube_captions(capSvc)
    /\ capLog' = captions_requests(capSvc)
    /\ UNCHANGED <<capSvc, pipeVars, idVars, genVars>>

CapNext == FetchCaptions

SpecCap == CapInit /\ [][CapNext]_vars

----------------------------------------------------------------------------
(* django.core.cache.cache *)

CACHE_TIMEOUT == 86400

\* cache.get(key): the stored value, None when absent or expired
cache_get(key) ==
    IF key \in DOMAIN cache /\ now < cache[key].expires
    THEN cache[key].value
    ELSE None

\* a store that keeps the first field of the entry it replaces
cache_set_merging(key, value, timeout) ==
    [k \in DOMAIN cache \cup {key} |->
        IF k # key THEN cache[k]
        ELSE [value |-> IF key \in DOMAIN cache
                        THEN <<cache[key].value[1], value[2]>>
                        ELSE value,
              expires |-> now + timeout]]

\* cache.set(key, value, timeout): the cache afterwards
cache_set(key, value, timeout) ==
    [k \in DOMAIN cache \cup {key} |->
        IF k = key THEN [value |-> value, expires |-> now + timeout] ELSE cache[k]]

----------------------------------------------------------------------------
(* download_audio and transcribe_whisper *)

S_en == <<"e", "n">>
S_transcriptions ==
    <<"t", "r", "a", "n", "s", "c", "r", "i", "p", "t", "i", "o", "n", "s", ":">>

\* f"audio_{uuid.uuid4().hex}.webm": one fresh name per call
TempFile(c) == <<"audio_", c, ".webm">>
Mp3File(c) == <<"audio_", c, ".mp3">>

Downloads == [primary : {"ok", "error"}, secondary : {"ok", "error"}]

\* messages are sequences of fragments, so that f"...{str(e)}" is a concatenation
M_audio_failed == <<"Audio download failed. Ensure FFmpeg is installed and on PATH.">>
M_whisper_failed == <<"Whisper transcription failed: ">>
M_fetching_failed == <<"Fetching transcriptions failed: ">>
M_invalid_url == <<"Invalid YouTube URL">>
M_both_failed == <<"Both captions and Whisper failed">>

\* str(e) of what the media-download service and the speech model raise
E_primary == <<"ERROR: unable to download video data">>
E_secondary == <<"ERROR: Postprocessing: ffprobe and ffmpeg not found">>
E_whisper == <<"Failed to load audio">>

\* lines 184-197: the durable copy is made in DEBUG only, inside the one try
secondary_fails(dl) == DEBUG /\ dl.secondary # "ok"

\* lines 172-205: what is returned or raised, what is left on disk, and the
\* exception the except clause caught
download_audio(c, dl) ==
    IF dl.primary # "ok"
    THEN [out |-> Raise(M_audio_failed), wrote |-> {}, mp3 |-> {}, cause |-> E_primary]
    ELSE IF secondary_fails(dl)
    THEN [out |-> Raise(M_audio_failed), wrote |-> {TempFile(c)}, mp3 |-> {},
          cause |-> E_secondary]
    ELSE [out |-> Return(TempFile(c)),
          wrote |-> {TempFile(c)},
          mp3 |-> IF DEBUG THEN {Mp3File(c)} ELSE {},
          cause |-> <<>>]

WhisperTexts == {<<>>, <<" ">>, <<" ", "w">>}
Transcribes == [kind : {"ok"}, text : WhisperTexts] \cup {[kind |-> "error", text |-> <<>>]}

\* lines 252-256
transcribe_whisper(audio_file, wsp) ==
    IF wsp.kind = "ok"
    THEN Return(Strip(wsp.text, Whitespace))
    ELSE Raise(M_whisper_failed \o E_whisper)

----------------------------------------------------------------------------
(* get_transcriptions: one frame per call, its tasks on the shared executor *)

MaxWorkers == 2
TickStep == 43200
MaxTime == 129600

Calls == {1, 2}
Langs == {S_en}

RefWatch == BuildUrl(S_www_youtube_com, S_watch, <<[key |-> S_v, value |-> S_abc123]>>)
RefShort == BuildUrl(S_youtu_be, <<"/">> \o S_abc123, <<>>)
RefOther == BuildUrl(S_example_com, <<"/">> \o S_x, <<>>)
RefEmpty == BuildUrl(S_youtu_be, <<"/">>, <<>>)
Refs == {RefWatch, RefShort, RefOther, RefEmpty}

\* the behaviours of the caption service the pipeline is run against
PipelineCaptionServices ==
    {[get |-> g, list |-> l, find |-> "found", fetch |-> SvcOk(<<>>)] :
        g \in {SvcOk(<<<<"c">>>>), SvcOk(<<>>), SvcErr("TranscriptsDisabled"),
               SvcErr("Other")},
        l \in {"ok"}}
    \cup {[get |-> SvcErr("NoTranscriptFound"), list |-> "ok", find |-> "found",
           fetch |-> SvcOk(<<<<"c">>>>)],
          [get |-> SvcErr("NoTranscriptFound"), list |-> "Other", find |-> "found",
           fetch |-> SvcOk(<<>>)]}

Kinds == {"captions", "audio", "whisper"}

NoTask == [status |-> "none", value |-> None, note |-> "", cause |-> <<>>]
NoTasks == [k \in Kinds |-> NoTask]

Ok(pair) == [ok |-> TRUE, value |-> pair, error |-> <<>>, exc |-> ""]
\* line 304: every failure leaves as RuntimeError("Fetching transcriptions failed: ...")
Fail(msg) ==
    [ok |-> FALSE, value |-> None, error |-> M_fetching_failed \o msg,
     exc |-> "RuntimeError"]
NoResult == [ok |-> FALSE, value |-> None, error |-> <<>>, exc |-> ""]

IdleFrame ==
    [pc |-> "idle", url |-> None, lang |-> None, video_id |-> None,
     captions_text |-> <<>>, audio_file |-> <<>>, whisper_text |-> <<>>,
     removed |-> "", cache_reads |-> 0, result |-> NoResult]

\* line 276
transcriptions_cache_key(video_id, lang) == S_transcriptions \o video_id \o <<":">> \o lang

\* a cache backend that stores nothing
cache_lookup_dummy(key) == None

\* line 277
cache_lookup(key) == cache_get(key)

\* asyncio.gather never noticing a failed child
gather_raises_never(t) == FALSE

\* line 285: gather raises as soon as one of its children has raised
gather_raises(t) == t.captions.status = "raised" \/ t.audio.status = "raised"

gather_error(t) ==
    IF t.audio.status = "raised" THEN t.audio.value ELSE t.captions.value

\* the check of line 296 left out
both_failed_unchecked(captions_text, whisper_text) == FALSE

\* line 296
both_failed(captions_text, whisper_text) ==
    ~(~Falsy(captions_text) \/ ~Falsy(whisper_text))

\* a pool whose workers are not given back when their work item ends
RunningOrEnded ==
    {ck \in Calls \X Kinds : task[ck[1]][ck[2]].status \in {"running", "ok", "raised"}}

\* lines 48-50: the work items that occupy a worker of the pool
Running == {ck \in Calls \X Kinds : task[ck[1]][ck[2]].status = "running"}

Finished(t) == t.status \in {"ok", "raised"}

\* run_in_executor: the work item joins the executor's queue
Submit(tk, k) ==
    [tk EXCEPT ![k] = [status |-> "queued", value |-> None, note |-> "", cause |-> <<>>]]

\* cancelling a task whose work item no worker has picked up yet
Cancel(tk) ==
    [k \in Kinds |-> IF tk[k].status = "queued"
                     THEN [tk[k] EXCEPT !.status = "cancelled"]
                     ELSE tk[k]]

Unqueue(q, c) == SelectSeq(q, LAMBDA ck : ck[1] # c)

Init ==
    /\ DEBUG \in BOOLEAN
    /\ now = 0
    /\ cache = <<>>
    /\ files = {}
    /\ media = {}
    /\ call = [c \in Calls |-> IdleFrame]
    /\ task = [c \in Calls |-> NoTasks]
    /\ queue = <<>>
    /\ stored = <<>>
    /\ IdOff /\ CapOff /\ GenOff

\* the download left to be started after the captions have come back
start_tasks_captions_only(tk) == Submit(tk, "captions")

\* lines 283-284: both tasks are created before the coroutine awaits
start_tasks(tk) == Submit(Submit(tk, "captions"), "audio")

\* the work items a call's new tasks put on the executor's queue, in order
Submitted(c, tk) ==
    SelectSeq(<<<<c, "captions">>, <<c, "audio">>>>,
              LAMBDA ck : tk[ck[2]].status = "queued")

\* an identifier is refused only when it is None
invalid_reference_none_only(video_id) == video_id = None

\* line 273: `if not video_id`
invalid_reference(video_id) == Falsy(video_id)

\* lines 271-285, up to the first suspension; cache_reads counts the calls of
\* cache.get this invocation has made
Call(c, url, lang) ==
    /\ call[c].pc = "idle"
    /\ LET video_id == extract_video_id(url)
           cache_key == transcriptions_cache_key(video_id, lang)
           cached == cache_lookup(cache_key)
           frame == [call[c] EXCEPT !.url = url, !.lang = lang, !.video_id = video_id]
           started == start_tasks(task[c])
       IN  IF invalid_reference(video_id)
           THEN /\ call' = [call EXCEPT ![c] =
                       [frame EXCEPT !.pc = "done", !.result = Fail(M_invalid_url)]]
                /\ UNCHANGED <<task, queue>>
           ELSE IF ~Falsy(cached)
           THEN /\ call' = [call EXCEPT ![c] =
                       [frame EXCEPT !.pc = "done", !.cache_reads = 1,
                                     !.result = Ok(cached)]]
                /\ UNCHANGED <<task, queue>>
           ELSE /\ call' = [call EXCEPT ![c] =
                       [frame EXCEPT !.pc = "gather", !.cache_reads = 1]]
                /\ task' = [task EXCEPT ![c] = started]
                /\ queue' = queue \o Submitted(c, started)
    /\ UNCHANGED <<DEBUG, now, cache, files, media, stored, idVars, capVars, genVars>>

\* executor, lines 48-53: a free worker takes the oldest work item
WorkerStart ==
    /\ queue # <<>>
    /\ Cardinality(Running) < MaxWorkers
    /\ LET ck == Head(queue)
       IN  task' = [task EXCEPT ![ck[1]][ck[2]].status = "running"]
    /\ queue' = Tail(queue)
    /\ UNCHANGED <<DEBUG, now, cache, files, media, call, stored, idVars, capVars, genVars>>

\* the worker running get_youtube_captions
CaptionsRun(c, svc) ==
    /\ task[c].captions.status = "running"
    /\ LET r == get_youtube_captions(svc)
       IN  task' = [task EXCEPT ![c].captions =
                       [status |-> IF r.raised THEN "raised" ELSE "ok",
                        value |-> IF r.raised THEN <<r.exc>> ELSE r.value,
                        note |-> svc.get.kind,
                        cause |-> IF r.raised THEN <<r.exc>> ELSE <<>>]]
    /\ UNCHANGED <<DEBUG, now, cache, files, media, call, queue, stored, idVars, capVars, genVars>>

\* the worker running download_audio
AudioRun(c, dl) ==
    /\ task[c].audio.status = "running"
    /\ LET d == download_audio(c, dl)
       IN  /\ task' = [task EXCEPT ![c].audio =
                          [status |-> IF d.out.raised THEN "raised" ELSE "ok",
                           value |-> IF d.out.raised THEN d.out.exc ELSE d.out.value,
                           note |-> dl.primary,
                           cause |-> d.cause]]
           /\ files' = files \cup d.wrote
           /\ media' = media \cup d.mp3
    /\ UNCHANGED <<DEBUG, now, cache, call, queue, stored, idVars, capVars, genVars>>

\* lines 285-287: gather resumes the coroutine, which submits the transcription
GatherDone(c) ==
    /\ call[c].pc = "gather"
    /\ IF gather_raises(task[c])
       THEN /\ call' = [call EXCEPT ![c].pc = "done",
                                    ![c].result = Fail(gather_error(task[c]))]
            /\ task' = [task EXCEPT ![c] = Cancel(@)]
            /\ queue' = Unqueue(queue, c)
       ELSE /\ Finished(task[c].captions) /\ Finished(task[c].audio)
            /\ call' = [call EXCEPT ![c].pc = "whisper",
                                    ![c].captions_text = task[c].captions.value,
                                    ![c].audio_file = task[c].audio.value]
            /\ task' = [task EXCEPT ![c] = Submit(@, "whisper")]
            /\ queue' = Append(queue, <<c, "whisper">>)
    /\ UNCHANGED <<DEBUG, now, cache, files, media, stored, idVars, capVars, genVars>>

\* the worker running transcribe_whisper
WhisperRun(c, wsp) ==
    /\ task[c].whisper.status = "running"
    /\ LET r == transcribe_whisper(call[c].audio_file, wsp)
       IN  task' = [task EXCEPT ![c].whisper =
                       [status |-> IF r.raised THEN "raised" ELSE "ok",
                        value |-> IF r.raised THEN r.exc ELSE r.value,
                        note |-> wsp.kind,
                        cause |-> IF r.raised THEN E_whisper ELSE <<>>]]
    /\ UNCHANGED <<DEBUG, now, cache, files, media, call, queue, stored, idVars, capVars, genVars>>

\* a failed transcription taken for a transcript
transcription_raised_ignored(t) == FALSE

\* line 287: the await re-raises what transcribe_whisper raised
transcription_raised(t) == t.whisper.status = "raised"

E_remove == <<"[Errno 13] Permission denied">>

\* the error of os.remove left to reach the outer except clause
remove_propagates_error(rm) == rm = "error"

\* lines 291-294: `except Exception: pass` around os.remove
remove_propagates(rm) == FALSE

\* lines 287-304: the coroutine resumes with the transcription's outcome
WhisperDone(c, rm) ==
    /\ call[c].pc = "whisper"
    /\ Finished(task[c].whisper)
    /\ IF transcription_raised(task[c])
       THEN /\ call' = [call EXCEPT ![c].pc = "done",
                                    ![c].result = Fail(task[c].whisper.value)]
            /\ UNCHANGED <<cache, files, stored>>
       ELSE LET captions_text == call[c].captions_text
                whisper_text == task[c].whisper.value
                audio_file == call[c].audio_file
                cache_key == transcriptions_cache_key(call[c].video_id, call[c].lang)
                result == <<captions_text, whisper_text>>
                exists == ~Falsy(audio_file) /\ audio_file \in files
                removed == IF exists THEN rm ELSE "absent"
            IN  /\ files' = IF exists /\ rm = "ok" THEN files \ {audio_file} ELSE files
                /\ IF exists /\ remove_propagates(rm)
                   THEN /\ call' = [call EXCEPT
                               ![c].pc = "done",
                               ![c].whisper_text = whisper_text,
                               ![c].removed = removed,
                               ![c].result = Fail(E_remove)]
                        /\ UNCHANGED <<cache, stored>>
                   ELSE IF both_failed(captions_text, whisper_text)
                   THEN /\ call' = [call EXCEPT
                               ![c].pc = "done",
                               ![c].whisper_text = whisper_text,
                               ![c].removed = removed,
                               ![c].result = Fail(M_both_failed)]
                        /\ UNCHANGED <<cache, stored>>
                   ELSE /\ call' = [call EXCEPT
                               ![c].pc = "done",
                               ![c].whisper_text = whisper_text,
                               ![c].removed = removed,
                               ![c].result = Ok(result)]
                        /\ cache' = cache_set(cache_key, result, CACHE_TIMEOUT)
                        /\ stored' = [k \in DOMAIN stored \cup {cache_key} |->
                                         IF k = cache_key
                                         THEN [value |-> result, at |-> now]
                                         ELSE stored[k]]
    /\ UNCHANGED <<DEBUG, now, media, task, queue, idVars, capVars, genVars>>

\* time passes
Tick ==
    /\ now + TickStep <= MaxTime
    /\ now' = now + TickStep
    /\ UNCHANGED <<DEBUG, cache, files, media, call, task, queue, stored, idVars, capVars, genVars>>

Next ==
    \/ \E c \in Calls, url \in Refs, lang \in Langs : Call(c, url, lang)
    \/ WorkerStart
    \/ \E c \in Calls, svc \in PipelineCaptionServices : CaptionsRun(c, svc)
    \/ \E c \in Calls, dl \in Downloads : AudioRun(c, dl)
    \/ \E c \in Calls : GatherDone(c)
    \/ \E c \in Calls, wsp \in Transcribes : WhisperRun(c, wsp)
    \/ \E c \in Calls, rm \in {"ok", "error"} : WhisperDone(c, rm)
    \/ Tick

Spec == Init /\ [][Next]_vars

----------------------------------------------------------------------------
(* generate_blog_from_transcription.  The response of the generative       *)
(* service is an object whose attributes may be None.                      *)

MaxGenCalls == 3

Nil == [none |-> TRUE, val |-> <<>>]
Some(v) == [none |-> FALSE, val |-> v]

Part(text) == [text |-> text]
Candidate(content) == [content |-> content]
Content(parts) == Some([parts |-> parts])
Response(candidates) == [transport |-> "ok", candidates |-> candidates]
TransportError == [transport |-> "error", candidates |-> Nil]

S_A == <<"A">>
S_B == <<" ", "B">>

Responses ==
    {TransportError,
     Response(Nil),
     Response(Some(<<>>)),
     Response(Some(<<Candidate(Nil)>>)),
     Response(Some(<<Candidate(Content(Nil))>>)),
     Response(Some(<<Candidate(Content(Some(<<>>)))>>)),
     Response(Some(<<Candidate(Content(Some(<<Part(<<>>)>>)))>>)),
     Response(Some(<<Candidate(Content(Some(<<Part(<<" ">>), Part(<<>>)>>)))>>)),
     Response(Some(<<Candidate(Content(Some(<<Part(None)>>)))>>)),
     Response(Some(<<Candidate(Content(Some(<<>>))),
                     Candidate(Content(Some(<<Part(S_A)>>)))>>)),
     Response(Some(<<Candidate(Content(Some(<<Part(S_A)>>)))>>)),
     Response(Some(<<Candidate(Content(Some(<<Part(S_B), Part(<<" ">>)>>)))>>))}

GenInputs ==
    {<<<<"a">>, <<"b">>>>, <<<<"a", "b">>, <<>>>>, <<<<>>, <<"a", "b">>>>,
     <<<<"a">>, <<>>>>, <<<<>>, <<>>>>}

S_blog == <<"b", "l", "o", "g", ":">>
S_EMPTY == <<"[", "E", "M", "P", "T", "Y", "]">>

\* hashlib.sha256(text.encode()).hexdigest(): the digest is taken to be free of
\* collisions and is written as the text it is the digest of, in brackets
sha256_hexdigest(text) == <<"sha256(">> \o text \o <<")">>

\* a key that leaves the Whisper transcript out
blog_cache_key_captions_only(captions_text, whisper_text) ==
    S_blog \o sha256_hexdigest(captions_text)

\* line 318
blog_cache_key(captions_text, whisper_text) ==
    S_blog \o sha256_hexdigest(captions_text \o whisper_text)

\* lines 324-351: the two transcripts as the template embeds them
build_prompt(captions_text, whisper_text) ==
    <<IF Falsy(captions_text) THEN S_EMPTY ELSE captions_text,
      IF Falsy(whisper_text) THEN S_EMPTY ELSE whisper_text>>

\* the check of line 374 left out
blog_content_missing_unchecked(blog_content) == FALSE

\* line 374
blog_content_missing(blog_content) == Falsy(blog_content)

RECURSIVE JoinTexts(_)
JoinTexts(parts) ==
    IF parts = <<>> THEN <<>> ELSE parts[1].text \o JoinTexts(Tail(parts))

\* lines 354-378: the body of the try
parse_response(response) ==
    IF response.transport # "ok" THEN Raise("service error")
    ELSE LET candidates == response.candidates
         IN  IF candidates.none \/ candidates.val = <<>> \/ candidates.val[1].content.none
             THEN Raise("Gemini API returned no valid content")
             ELSE LET parts == candidates.val[1].content.val.parts
                  IN  IF parts.none \/ parts.val = <<>>
                      THEN Raise("Gemini API returned empty parts")
                      ELSE IF \E i \in 1..Len(parts.val) : parts.val[i].text = None
                      THEN Raise("TypeError")
                      ELSE LET blog_content == Strip(JoinTexts(parts.val), Whitespace)
                           IN  IF blog_content_missing(blog_content)
                               THEN Raise("Gemini API returned empty blog content")
                               ELSE Return(blog_content)

\* a failure of the service answered with a placeholder article
generate_content_placeholder(response) ==
    LET r == parse_response(response)
    IN  IF r.raised THEN Return(<<"?">>) ELSE r

\* lines 353-381: every exception leaves as RuntimeError("Gemini API request failed: ...")
generate_content(response) ==
    LET r == parse_response(response)
    IN  IF r.raised THEN Raise("Gemini API request failed") ELSE r

NoGen == [captions_text |-> <<>>, whisper_text |-> <<>>, prompt |-> <<>>,
          response |-> TransportError, service |-> FALSE, out |-> Return(None),
          at |-> 0, calls |-> 0, gen |-> Return(None), genAt |-> 0]

GenInit ==
    /\ DEBUG = FALSE
    /\ now = 0
    /\ cache = <<>>
    /\ files = {}
    /\ media = {}
    /\ call = <<>>
    /\ task = <<>>
    /\ queue = <<>>
    /\ stored = <<>>
    /\ genSeen = <<>>
    /\ genLast = NoGen
    /\ genCount = 0
    /\ IdOff /\ CapOff

\* history: what is known of the earlier calls with this concatenation
Seen(text) ==
    IF text \in DOMAIN genSeen
    THEN genSeen[text]
    ELSE [calls |-> 0, gen |-> Return(None), at |-> 0]

\* lines 306-381: one call of generate_blog_from_transcription
GenerateBlog(captions_text, whisper_text, response) ==
    /\ genCount < MaxGenCalls
    /\ genCount' = genCount + 1
    /\ LET cache_key == blog_cache_key(captions_text, whisper_text)
           cached_blog == cache_get(cache_key)
           hit == ~Falsy(cached_blog)
           out == IF hit THEN Return(cached_blog) ELSE generate_content(response)
           text == captions_text \o whisper_text
           before == Seen(text)
       IN  /\ cache' = IF ~hit /\ ~out.raised
                       THEN cache_set(cache_key, out.value, CACHE_TIMEOUT)
                       ELSE cache
           /\ genLast' = [captions_text |-> captions_text,
                          whisper_text |-> whisper_text,
                          prompt |-> IF hit THEN <<>>
                                     ELSE build_prompt(captions_text, whisper_text),
                          response |-> IF hit THEN TransportError ELSE response,
                          service |-> ~hit,
                          out |-> out,
                          at |-> now,
                          calls |-> before.calls,
                          gen |-> before.gen,
                          genAt |-> before.at]
           /\ genSeen' = [t \in DOMAIN genSeen \cup {text} |->
                             IF t = text
                             THEN [calls |-> before.calls + 1,
                                   gen |-> IF hit THEN before.gen ELSE out,
                                   at |-> IF hit THEN before.at ELSE now]
                             ELSE genSeen[t]]
    /\ UNCHANGED <<DEBUG, now, files, media, call, task, queue, stored, idVars, capVars>>

GenNext ==
    \/ \E texts \in GenInputs, response \in Responses :
           GenerateBlog(texts[1], texts[2], response)
    \/ Tick

SpecGen == GenInit /\ [][GenNext]_vars

----------------------------------------------------------------------------
(* Properties *)

Hit(c) == call[c].pc = "done" /\ call[c].result.ok /\ task[c] = NoTasks

\* C1: a call made while a pair stored for the same (identifier, language) is
\* less than 24 hours old is a cache hit: it returns that pair at once and
\* starts neither the caption fetch, nor the audio download, nor the
\* transcription.
C1_RepeatedCallIsCacheHit ==
    [][\A c \in Calls :
        LET k == transcriptions_cache_key(call'[c].video_id, call'[c].lang)
        IN  (/\ call[c].pc = "idle"
             /\ call'[c].pc # "idle"
             /\ ~Falsy(call'[c].video_id)
             /\ k \in DOMAIN stored
             /\ now < stored[k].at + 86400)
            => (/\ call'[c].pc = "done"
                /\ call'[c].result = Ok(stored[k].value)
                /\ task'[c] = NoTasks
                /\ queue' = queue)]_vars

C1_Witness ==
    \E c \in Calls, d \in Calls :
        /\ c # d
        /\ Hit(c)
        /\ call[d].pc = "done" /\ call[d].result.ok /\ task[d].whisper.status = "ok"
        /\ call[c].result = call[d].result
        /\ call[c].url # call[d].url
        /\ now > 0

\* C2: when the caption text and the transcribed text are both empty the call
\* fails with "Both captions and Whisper failed" and leaves the cache as it was.
C2_BothEmptyFailsUncached ==
    [][\A c \in Calls :
        (/\ call[c].pc = "whisper"
         /\ call'[c].pc = "done"
         /\ call[c].captions_text = <<>>
         /\ task[c].whisper.status = "ok"
         /\ task[c].whisper.value = <<>>)
        => (/\ ~call'[c].result.ok
            /\ call'[c].result.error = M_fetching_failed \o M_both_failed
            /\ cache' = cache)]_vars

C2_Witness ==
    \E c \in Calls :
        /\ call[c].pc = "done"
        /\ call[c].result = Fail(M_both_failed)
        /\ call[c].captions_text = <<>>
        /\ task[c].whisper.value = <<>>
        /\ transcriptions_cache_key(call[c].video_id, call[c].lang) \notin DOMAIN cache

\* C3: once a call that downloaded an audio file is over, the file is gone,
\* whether the transcription returned or raised (a deletion that itself failed
\* aside).
C3_ArtifactRemoved ==
    \A c \in Calls :
        (/\ call[c].pc = "done"
         /\ task[c].audio.status = "ok"
         /\ Finished(task[c].whisper)
         /\ call[c].removed # "error")
        => TempFile(c) \notin files

\* C4: the transcription is submitted only after the audio download of the same
\* call has returned; when the download raised, no transcription is ever
\* submitted and the call fails.
C4_WhisperAfterAudio ==
    \A c \in Calls :
        /\ task[c].whisper.status # "none" => task[c].audio.status = "ok"
        /\ task[c].audio.status = "raised" =>
              /\ task[c].whisper.status = "none"
              /\ call[c].pc \in {"gather", "done"}
              /\ call[c].pc = "done" => ~call[c].result.ok

C4_Witness ==
    \E c \in Calls :
        /\ call[c].pc = "done"
        /\ task[c].audio.status = "raised"
        /\ task[c].captions.status = "ok"
        /\ call[c].result = Fail(M_audio_failed)

\* C5: after a call whose audio download raised, none of the temporary files
\* the download wrote is left on disk.
C5_NoLeakOnAudioFailure ==
    \A c \in Calls :
        (call[c].pc = "done" /\ task[c].audio.status = "raised")
        => TempFile(c) \notin files

\* C6 as stated: the second call with a given concatenation makes no service
\* call and returns what the first returned.
C6_SecondCallNeverGenerates ==
    genLast.calls = 1 =>
        /\ ~genLast.service
        /\ ~genLast.out.raised
        /\ genLast.out = genLast.gen

\* C6 amended: a call made less than 24 hours after the service last produced
\* an article for the same concatenation makes no service call and returns
\* that article.
C6_CallWithinTtlReusesArticle ==
    (/\ genLast.calls >= 1
     /\ ~genLast.gen.raised
     /\ genLast.at < genLast.genAt + 86400)
    => (~genLast.service /\ genLast.out = genLast.gen)

C6_Witness ==
    /\ genLast.calls = 1
    /\ ~genLast.service
    /\ genLast.out = Return(S_A)
    /\ genLast.captions_text = <<"a", "b">>
    /\ genLast.at > genLast.genAt

FirstParts(response) == response.candidates.val[1].content.val.parts

\* a response that came back but carries no article text
Degenerate(response) ==
    /\ response.transport = "ok"
    /\ \/ response.candidates.none
       \/ response.candidates.val = <<>>
       \/ response.candidates.val[1].content.none
       \/ FirstParts(response).none
       \/ FirstParts(response).val = <<>>
       \/ \A i \in 1..Len(FirstParts(response).val) :
             \A j \in 1..Len(FirstParts(response).val[i].text) :
                 FirstParts(response).val[i].text[j] = " "

\* C7: a call that reached the service and got a response with no candidates,
\* a first candidate without content or parts, or only blank text segments
\* fails with "Gemini API request failed"; no call returns an empty article.
C7_EmptyResponseFails ==
    /\ (genLast.service /\ Degenerate(genLast.response))
       => genLast.out = Raise("Gemini API request failed")
    /\ (genCount > 0 /\ ~genLast.out.raised)
       => (genLast.out.value # <<>> /\ genLast.out.value # None)

C7_Witness ==
    /\ genLast.service
    /\ genLast.response =
           Response(Some(<<Candidate(Content(Some(<<Part(<<" ">>), Part(<<>>)>>)))>>))
    /\ genLast.out.raised

HasKey(pairs, key) == \E i \in 1..Len(pairs) : pairs[i].key = key

\* the value of the first field named `key`
FirstValue(pairs, key) ==
    pairs[CHOOSE i \in 1..Len(pairs) :
              pairs[i].key = key /\ \A j \in 1..(i - 1) : pairs[j].key # key].value

NonBlank(pairs) == SelectSeq(pairs, LAMBDA p : p.value # <<>>)

\* C8 as stated: youtube host -> the value of `v` (null if absent); short-link
\* host -> the path without its leading and trailing slashes; else null.
C8_IdentifierByHost ==
    idPc = "returned" =>
        idOut = IF Contains(idIn.host, S_youtube)
                THEN IF HasKey(idIn.pairs, S_v) THEN FirstValue(idIn.pairs, S_v) ELSE None
                ELSE IF idIn.host = S_youtu_be
                THEN Strip(idIn.path, {"/"})
                ELSE None

\* C8 amended: as above, but for a youtube host the result is the first
\* non-empty value of `v`, and null when `v` is absent or has only empty values.
C8_IdentifierByHostNonBlank ==
    idPc = "returned" =>
        idOut = IF Contains(idIn.host, S_youtube)
                THEN IF HasKey(NonBlank(idIn.pairs), S_v)
                     THEN FirstValue(NonBlank(idIn.pairs), S_v)
                     ELSE None
                ELSE IF Contains(idIn.host, S_youtu_be)
                THEN Strip(idIn.path, {"/"})
                ELSE None

C8_Witness ==
    /\ idPc = "returned"
    /\ idIn.host = S_www_youtube_com
    /\ idIn.pairs = <<[key |-> S_v, value |-> <<>>], [key |-> S_v, value |-> S_abc123]>>
    /\ idOut = S_abc123

\* the service has no captions to give
Unavailable(svc) ==
    \/ svc.get.kind \in {"TranscriptsDisabled", "Other"}
    \/ /\ svc.get.kind = "NoTranscriptFound"
       /\ (svc.list # "ok" \/ svc.find # "found" \/ svc.fetch.kind # "ok")

\* C9: get_youtube_captions never raises, and returns the empty string
\* whenever the service ends in an error.
C9_CaptionsNeverRaise ==
    capPc = "returned" =>
        /\ ~capOut.raised
        /\ Unavailable(capSvc) => capOut.value = <<>>

C9_Witness ==
    /\ capPc = "returned"
    /\ capSvc.get.kind = "NoTranscriptFound"
    /\ capSvc.list = "ok"
    /\ capSvc.find = "found"
    /\ capSvc.fetch.kind = "Other"
    /\ capOut = Return(<<>>)

\* C10 as stated: a call whose caption fetch met an unexpected error fails.
C10_UnexpectedCaptionErrorFails ==
    \A c \in Calls :
        (call[c].pc = "done" /\ task[c].captions.note = "Other") => ~call[c].result.ok

\* C10 amended: an unexpected error of the caption service is turned into the
\* empty caption text, with which the call goes on: it returns
\* ("", whisper text) whenever the download and the transcription succeed with
\* a non-empty text.
C10_UnexpectedCaptionErrorSwallowed ==
    \A c \in Calls :
        task[c].captions.note = "Other" =>
            /\ task[c].captions.status = "ok"
            /\ task[c].captions.value = <<>>
            /\ (/\ call[c].pc = "done"
                /\ task[c].audio.status = "ok"
                /\ task[c].whisper.status = "ok"
                /\ task[c].whisper.value # <<>>)
               => call[c].result = Ok(<<<<>>, task[c].whisper.value>>)

C10_Witness ==
    \E c \in Calls :
        /\ call[c].pc = "done"
        /\ task[c].captions.note = "Other"
        /\ call[c].result = Ok(<<<<>>, <<"w">>>>)

\* generate_blog, lines 90-127: get_transcriptions raising is caught by the
\* one `except Exception`, which answers every failure alike
error_response(result) ==
    [status |-> 500, error |-> <<"Internal server error">>]

\* C11 as stated: in development mode, whenever the primary download
\* succeeded, download_audio returns the temporary artifact, whatever the
\* outcome of the secondary durable-copy download.
C11_SecondaryFailureSwallowed ==
    \A c \in Calls :
        (DEBUG /\ Finished(task[c].audio) /\ task[c].audio.note = "ok")
            => /\ task[c].audio.status = "ok"
               /\ task[c].audio.value = TempFile(c)

\* C12: a call whose reference yields no identifier (None or the empty
\* identifier) ends at once in failure, having made no cache.get and no
\* cache.set and having started no caption fetch, download or transcription.
C12_InvalidReferenceFailsFast ==
    [][\A c \in Calls :
        (call[c].pc = "idle" /\ call'[c].pc # "idle" /\ Falsy(call'[c].video_id))
            => /\ call'[c].pc = "done"
               /\ ~call'[c].result.ok
               /\ call'[c].result.error = M_fetching_failed \o M_invalid_url
               /\ call'[c].cache_reads = 0
               /\ cache' = cache
               /\ stored' = stored
               /\ task'[c] = NoTasks
               /\ queue' = queue]_vars

C12_Witness ==
    \E c, d \in Calls :
        /\ call[c].pc = "done" /\ call[c].video_id = <<>> /\ ~call[c].result.ok
        /\ call[c].cache_reads = 0 /\ task[c] = NoTasks
        /\ call[d].pc = "done" /\ call[d].video_id = None /\ ~call[d].result.ok
        /\ call[d].cache_reads = 0 /\ task[d] = NoTasks
        /\ cache = <<>>

\* C13 as stated: a reference without identifier is reported as a failure of
\* its own kind, with a 4xx status, that differs from what the caller is told
\* when the download, the transcription or the pipeline fails.
C13_InvalidReferenceIsUserError ==
    \A c \in Calls :
        (call[c].pc = "done" /\ Falsy(call[c].video_id))
            => /\ ~call[c].result.ok
               /\ error_response(call[c].result).status \in 400..499
               /\ \A d \in Calls :
                    (/\ call[d].pc = "done"
                     /\ ~call[d].result.ok
                     /\ ~Falsy(call[d].video_id))
                    => /\ call[d].result.exc # call[c].result.exc
                       /\ error_response(call[d].result) # error_response(call[c].result)

\* C14: a failed audio download or a failed transcription fails the call even
\* when the captions were fetched: the call ends in failure without a pair,
\* the cache is left as it was, no finished stage is run again, and the
\* outcome of a finished call is final.
C14_DownloadOrTranscriptionFailureIsFatal ==
    [][\A c \in Calls :
        /\ \A k \in Kinds : Finished(task[c][k]) => task'[c][k] = task[c][k]
        /\ task[c].audio.status = "raised" => task'[c].whisper.status = "none"
        /\ call[c].pc = "done" => call'[c] = call[c]
        /\ (/\ call[c].pc # "done"
            /\ call'[c].pc = "done"
            /\ (task[c].audio.status = "raised" \/ task[c].whisper.status = "raised"))
           => /\ ~call'[c].result.ok
              /\ call'[c].result.value = None
              /\ cache' = cache
              /\ stored' = stored]_vars

C14_Witness ==
    \E c, d \in Calls :
        /\ call[c].pc = "done" /\ ~call[c].result.ok
        /\ task[c].audio.status = "raised"
        /\ task[c].captions.status = "ok" /\ task[c].captions.value = <<"c">>
        /\ call[d].pc = "done" /\ ~call[d].result.ok
        /\ task[d].whisper.status = "raised"
        /\ call[d].captions_text = <<"c">>
        /\ cache = <<>>

\* C15 as stated: whenever download_audio fails, the error it raises carries
\* the message of the error that made the download fail.
C15_AudioFailureWrapsCause ==
    \A c \in Calls :
        task[c].audio.status = "raised"
            => /\ task[c].audio.cause # <<>>
               /\ Contains(task[c].audio.value, task[c].audio.cause)

\* C16: a call that waits in gather has started both the caption fetch and
\* the audio download, and the transcription is started only when both have
\* completed; which of the two completes first is not fixed.
C16_BothStartedBeforeWaiting ==
    \A c \in Calls :
        /\ call[c].pc = "gather"
            => /\ task[c].captions.status \in {"queued", "running", "ok", "raised"}
               /\ task[c].audio.status \in {"queued", "running", "ok", "raised"}
               /\ task[c].whisper.status = "none"
        /\ task[c].whisper.status # "none"
            => /\ task[c].captions.status = "ok"
               /\ task[c].audio.status = "ok"

\* the download done while the captions are being fetched in one call, the
\* captions done while the download runs in the other
C16_Witness ==
    \E c, d \in Calls :
        /\ call[c].pc = "gather"
        /\ task[c].audio.status = "ok" /\ task[c].captions.status = "running"
        /\ call[d].pc = "gather"
        /\ task[d].captions.status = "ok" /\ task[d].audio.status = "running"

\* a call that went through the stages itself and returned the pair v
Computed(c, v) ==
    /\ call[c].pc = "done"
    /\ call[c].result = Ok(v)
    /\ task[c].captions.status = "ok"
    /\ task[c].audio.status = "ok"
    /\ task[c].whisper.status = "ok"
    /\ v = <<task[c].captions.value, task[c].whisper.value>>

\* C17: whatever the interleaving of the calls, every entry of the transcript
\* cache is a pair with a non-empty field that a successfully completed call
\* for the entry's identifier and language computed and returned, and it is
\* the pair of the latest write to its key.
C17_CacheHoldsCompletedResults ==
    \A k \in DOMAIN cache :
        LET v == cache[k].value
        IN  /\ v # None
            /\ Len(v) = 2
            /\ v[1] # None /\ v[2] # None
            /\ v[1] # <<>> \/ v[2] # <<>>
            /\ \E c \in Calls :
                    /\ Computed(c, v)
                    /\ transcriptions_cache_key(call[c].video_id, call[c].lang) = k
            /\ k \in DOMAIN stored
            /\ v = stored[k].value
            /\ cache[k].expires = stored[k].at + CACHE_TIMEOUT

\* two calls populated one key with different pairs; the cache holds one of them
C17_Witness ==
    \E c, d \in Calls :
        LET k == transcriptions_cache_key(call[c].video_id, call[c].lang)
        IN  /\ Computed(c, call[c].result.value)
            /\ Computed(d, call[d].result.value)
            /\ k = transcriptions_cache_key(call[d].video_id, call[d].lang)
            /\ call[c].result.value # call[d].result.value
            /\ k \in DOMAIN cache
            /\ cache[k].value = call[d].result.value

\* C18: when the removal of the temporary file fails after a successful
\* transcription, the call ends exactly as with a successful removal: it
\* returns the pair and stores it for a day, or fails when both texts are empty.
C18_CleanupFailureSwallowed ==
    [][\A c \in Calls :
        (/\ call[c].pc = "whisper"
         /\ call'[c].pc = "done"
         /\ task[c].whisper.status = "ok"
         /\ call'[c].removed = "error")
        => LET pair == <<call[c].captions_text, task[c].whisper.value>>
               key == transcriptions_cache_key(call[c].video_id, call[c].lang)
           IN  IF Falsy(pair[1]) /\ Falsy(pair[2])
               THEN /\ call'[c].result = Fail(M_both_failed)
                    /\ cache' = cache
               ELSE /\ call'[c].result = Ok(pair)
                    /\ key \in DOMAIN cache'
                    /\ cache'[key] = [value |-> pair, expires |-> now + 86400]
                    /\ \A k \in DOMAIN cache' \ {key} :
                            k \in DOMAIN cache /\ cache'[k] = cache[k]]_vars

C18_Witness ==
    \E c \in Calls :
        LET key == transcriptions_cache_key(call[c].video_id, call[c].lang)
        IN  /\ call[c].pc = "done"
            /\ call[c].removed = "error"
            /\ call[c].audio_file \in files
            /\ call[c].result = Ok(<<<<"c">>, <<"w">>>>)
            /\ key \in DOMAIN cache
            /\ cache[key].value = call[c].result.value

\* C19: get_youtube_captions returns the captions of the exact language when
\* that request succeeds, making no other request; only when it fails with
\* NoTranscriptFound does it list the tracks, and it returns the generated
\* track of the language when there is one; when captions are disabled it
\* returns "" after the one request, the fallback not being tried.
C19_CaptionFallbackPolicy ==
    capPc = "returned" =>
        /\ Len(capLog) >= 1 /\ capLog[1] = "get_transcript"
        /\ capSvc.get.kind = "ok"
            => /\ capOut = Return(join_captions(capSvc.get.frags))
               /\ capLog = <<"get_transcript">>
        /\ capSvc.get.kind = "NoTranscriptFound"
            => /\ Len(capLog) >= 2 /\ capLog[2] = "list_transcripts"
               /\ IF capSvc.list = "ok" /\ capSvc.find = "found"
                  THEN /\ capLog[Len(capLog)] = "fetch"
                       /\ capSvc.fetch.kind = "ok"
                            => capOut = Return(join_captions(capSvc.fetch.frags))
                  ELSE capOut = Return(<<>>)
        /\ capSvc.get.kind # "NoTranscriptFound"
            => \A i \in DOMAIN capLog : capLog[i] = "get_transcript"
        /\ capSvc.get.kind = "TranscriptsDisabled"
            => /\ capOut = Return(<<>>)
               /\ capLog = <<"get_transcript">>

\* captions disabled for the exact language while the generated track could
\* have been listed and fetched
C19_Witness ==
    /\ capPc = "returned"
    /\ capSvc.get.kind = "TranscriptsDisabled"
    /\ capSvc.list = "ok" /\ capSvc.find = "found"
    /\ capSvc.fetch = SvcOk(<<<<"c">>>>)
    /\ capOut = Return(<<>>)
    /\ capLog = <<"get_transcript">>

\* the scheduling the runtime provides: a free worker takes the oldest work
\* item, a running blocking call returns or raises, and the event loop
\* resumes a coroutine whose awaited future is done
Fairness ==
    /\ WF_vars(WorkerStart)
    /\ \A c \in Calls :
        /\ WF_vars(\E svc \in PipelineCaptionServices : CaptionsRun(c, svc))
        /\ WF_vars(\E dl \in Downloads : AudioRun(c, dl))
        /\ WF_vars(GatherDone(c))
        /\ WF_vars(\E wsp \in Transcribes : WhisperRun(c, wsp))
        /\ WF_vars(\E rm \in {"ok", "error"} : WhisperDone(c, rm))

\* the calls and the pool alone, the clock standing still
PoolNext ==
    \/ \E c \in Calls, url \in Refs, lang \in Langs : Call(c, url, lang)
    \/ WorkerStart
    \/ \E c \in Calls, svc \in PipelineCaptionServices : CaptionsRun(c, svc)
    \/ \E c \in Calls, dl \in Downloads : AudioRun(c, dl)
    \/ \E c \in Calls : GatherDone(c)
    \/ \E c \in Calls, wsp \in Transcribes : WhisperRun(c, wsp)
    \/ \E c \in Calls, rm \in {"ok", "error"} : WhisperDone(c, rm)

FairSpec == Init /\ [][PoolNext]_vars /\ Fairness

\* C20: with the blocking calls terminating, every invocation that has been
\* made ends, with a pair or with a failure, however the invocations queue
\* for the workers of the pool.
C20_EveryCallCompletes ==
    \A c \in Calls : (call[c].pc \in {"gather", "whisper"}) ~> (call[c].pc = "done")


\* both calls went through all three stages on the shared pool and ended
C20_Witness ==
    \A c \in Calls :
        /\ call[c].pc = "done"
        /\ Finished(task[c].captions)
        /\ Finished(task[c].audio)
        /\ Finished(task[c].whisper)

\* the text segments of the first candidate of a response, concatenated;
\* None when the response carries none
ServiceText(response) ==
    IF \/ response.transport # "ok"
       \/ response.candidates.none
       \/ response.candidates.val = <<>>
       \/ response.candidates.val[1].content.none
       \/ FirstParts(response).none
       \/ \E i \in 1..Len(FirstParts(response).val) :
              FirstParts(response).val[i].text = None
    THEN None
    ELSE JoinTexts(FirstParts(response).val)

\* C21: the article cache changes only in a call that reached the service and
\* got an article, and then only under the key of that call's concatenated
\* inputs, to the non-empty trimmed text the service returned; every entry
\* is such a text under the key of some inputs; a call that fails leaves the
\* cache as it was, and the next call with the same concatenation after a
\* failed generation reaches the service again.
C21_ArticleCacheOnlyFromGeneration ==
    [][/\ \A k \in DOMAIN cache' :
            /\ cache'[k].value # None
            /\ cache'[k].value # <<>>
            /\ Strip(cache'[k].value, Whitespace) = cache'[k].value
            /\ \E texts \in GenInputs :
                    k = S_blog \o sha256_hexdigest(texts[1] \o texts[2])
       /\ cache' # cache
            => LET key == S_blog \o sha256_hexdigest(genLast'.captions_text
                                                    \o genLast'.whisper_text)
                   raw == ServiceText(genLast'.response)
               IN  /\ genCount' = genCount + 1
                   /\ genLast'.service
                   /\ ~genLast'.out.raised
                   /\ raw # None
                   /\ genLast'.out.value = Strip(raw, Whitespace)
                   /\ key \in DOMAIN cache'
                   /\ cache'[key] = [value |-> genLast'.out.value,
                                     expires |-> now + 86400]
                   /\ \A k \in DOMAIN cache' \ {key} :
                           k \in DOMAIN cache /\ cache'[k] = cache[k]
                   /\ \A k \in DOMAIN cache : k \in DOMAIN cache'
       /\ (genCount' = genCount + 1 /\ genLast'.out.raised) => cache' = cache
       /\ (genCount' = genCount + 1 /\ genLast'.calls > 0 /\ genLast'.gen.raised)
            => genLast'.service]_vars

\* a call that failed, then a call with the same concatenation that reached
\* the service and whose article is now in the cache
C21_Witness ==
    LET key == blog_cache_key(genLast.captions_text, genLast.whisper_text)
    IN  /\ genLast.calls > 0
        /\ genLast.gen.raised
        /\ genLast.service
        /\ genLast.out = Return(<<"B">>)
        /\ key \in DOMAIN cache
        /\ cache[key].value = <<"B">>

====
